---- MODULE Spec2Model ----
(***************************************************************************)
(* Model of the s3-mcp tool adapter (src/main.py).                         *)
(*                                                                         *)
(* Every tool handler is an `async def` without an await point, so one     *)
(* invocation runs atomically: one action per handler.  The storage        *)
(* backend (boto3's s3_client) is an external collaborator; each action    *)
(* draws its behaviour (which call raises, what a successful call          *)
(* returns) from small sets.                                               *)
(*                                                                         *)
(* Python values are tagged records, so that None, False, "" and {} stay   *)
(* different values with the same truthiness.  Texts that Python builds    *)
(* by formatting (str(e)) are sequences of fragments.                      *)
(***************************************************************************)
EXTENDS Integers, Sequences, FiniteSets, TLC

VARIABLES
    store,    \* backend state: existing buckets and their sub-configuration
    tool,     \* name of the handler whose result is pending, or "none"
    args,     \* the arguments of that invocation, defaults applied
    calls,    \* backend calls issued by that invocation, in order
    result    \* the value the handler returned

vars == <<store, tool, args, calls, result>>

----------------------------------------------------------------------------
(* Bounds *)

MaxTags == 2
MaxRules == 2
MaxBody == 2
MaxObjs == 2

----------------------------------------------------------------------------
(* Python values *)

PyNone == [t |-> "none"]
PyBool(b) == [t |-> "bool", v |-> b]
PyStr(s) == [t |-> "str", v |-> s]
PyInt(n) == [t |-> "int", v |-> n]
PyDict(d) == [t |-> "dict", v |-> d]
PyList(l) == [t |-> "list", v |-> l]

EmptyDict == [k \in {} |-> PyNone]

\* Python truth value testing (`if x:`)
Truthy(x) ==
    CASE x.t = "none" -> FALSE
      [] x.t = "bool" -> x.v
      [] x.t = "str"  -> x.v # ""
      [] x.t = "int"  -> x.v # 0
      [] x.t = "dict" -> DOMAIN x.v # {}
      [] x.t = "list" -> Len(x.v) > 0

\* dict.get(k) and dict.get(k, default)
DictGetDefault(d, k, default) == IF k \in DOMAIN d THEN d[k] ELSE default

DictGet(d, k) == DictGetDefault(d, k, PyNone)

\* a defaulted parameter: <<>> when the caller omits it, <<v>> when supplied
WithDefault(a, d) == IF a = <<>> THEN d ELSE a[1]

----------------------------------------------------------------------------
(* Decimal and hexadecimal rendering, used by isoformat() and str(e) *)

DecDigit(n) == <<"0", "1", "2", "3", "4", "5", "6", "7", "8", "9">>[n + 1]

HexDigit(n) ==
    <<"0", "1", "2", "3", "4", "5", "6", "7", "8", "9",
      "a", "b", "c", "d", "e", "f">>[n + 1]

\* n in decimal, zero-padded to w digits
RECURSIVE Pad(_, _)
Pad(n, w) == IF w = 0 THEN <<>> ELSE Pad(n \div 10, w - 1) \o <<DecDigit(n % 10)>>

\* n >= 0 in decimal
RECURSIVE Decimal(_)
Decimal(n) == IF n < 10 THEN <<DecDigit(n)>> ELSE Decimal(n \div 10) \o <<DecDigit(n % 10)>>

----------------------------------------------------------------------------
(* Exceptions and the error envelope *)

BackendExceptions ==
    { [cls |-> "ClientError",
       msg |-> "An error occurred (AccessDenied) when calling the operation: Access Denied"],
      [cls |-> "EndpointConnectionError",
       msg |-> "Could not connect to the endpoint URL"] }

KeyError(k) == [cls |-> "KeyError", key |-> k]

\* str(e): KeyError renders the repr of the missing key, UnicodeDecodeError
\* its five arguments, any other exception its single message argument
Str(e) ==
    CASE e.cls = "KeyError" -> <<"'", e.key, "'">>
      [] e.cls = "UnicodeDecodeError" ->
            <<"'utf-8' codec can't decode byte 0x",
              HexDigit(e.byte \div 16), HexDigit(e.byte % 16), " in position ">>
            \o Decimal(e.pos) \o <<": ", e.reason>>
      [] OTHER -> <<e.msg>>

\* variant: the envelope carries the exception's class name, not str(e)
ErrorEnvelopeOfClassName(e) == PyDict([error |-> PyStr(<<e.cls>>)])

\* except Exception as e: return {"error": str(e)}
ErrorEnvelope(e) == PyDict([error |-> PyStr(Str(e))])

Success == PyDict([success |-> PyBool(TRUE)])

----------------------------------------------------------------------------
(* Backend calls *)

\* one call on s3_client: its keyword arguments and what it did
\* (raises = <<>> and a response, or raises = <<e>>)
Call(op, kwargs, raises, response) ==
    [op |-> op, kwargs |-> kwargs, raises |-> raises, response |-> response]

NoResponse == PyNone

\* the arguments of a tool that takes none
NoArgs == [none |-> TRUE]

\* The statements of a try block issue the calls of `plan` in order; the
\* call number `fail` (0: none) raises `exc` and ends the block.
RECURSIVE Issue(_, _, _, _)
Issue(plan, i, fail, exc) ==
    IF i > Len(plan) THEN <<>>
    ELSE IF i = fail
         THEN <<Call(plan[i].op, plan[i].kwargs, <<exc>>, NoResponse)>>
         ELSE <<Call(plan[i].op, plan[i].kwargs, <<>>, plan[i].response)>>
              \o Issue(plan, i + 1, fail, exc)

Planned(op, kwargs, response) == [op |-> op, kwargs |-> kwargs, response |-> response]

Raised(cs) == \E i \in 1..Len(cs) : cs[i].raises # <<>>

TheException(cs) == cs[Len(cs)].raises[1]

----------------------------------------------------------------------------
(* The simulated backend's state *)

BucketNames == {"demo", "logs"}

NewBucket == [pab |-> PyNone, versioning |-> PyNone, encryption |-> PyNone]

\* effect of one call on the backend; a call that raised changed nothing
BackendStep(st, c) ==
    LET b == c.kwargs.Bucket IN
    IF c.raises # <<>> THEN st
    ELSE CASE c.op = "create_bucket" ->
                IF b \in DOMAIN st THEN st ELSE (b :> NewBucket) @@ st
           [] c.op = "delete_bucket" ->
                [x \in DOMAIN st \ {b} |-> st[x]]
           [] c.op = "put_public_access_block" /\ b \in DOMAIN st ->
                [st EXCEPT ![b].pab = c.kwargs.PublicAccessBlockConfiguration]
           [] c.op = "put_bucket_versioning" /\ b \in DOMAIN st ->
                [st EXCEPT ![b].versioning = c.kwargs.VersioningConfiguration.Status]
           [] c.op = "put_bucket_encryption" /\ b \in DOMAIN st ->
                [st EXCEPT ![b].encryption =
                    c.kwargs.ServerSideEncryptionConfiguration.Rules[1].ApplyServerSideEncryptionByDefault.SSEAlgorithm]
           [] OTHER -> st

RECURSIVE Backend(_, _)
Backend(st, cs) ==
    IF cs = <<>> THEN st ELSE Backend(BackendStep(st, Head(cs)), Tail(cs))

----------------------------------------------------------------------------
(* Shape shared by the handlers *)

\* what every handler leaves behind: its arguments, the calls it issued,
\* its return value, and the backend after those calls
Returns(name, a, out) ==
    /\ tool' = name
    /\ args' = a
    /\ calls' = out.calls
    /\ result' = out.result
    /\ store' = Backend(store, out.calls)

\* try: one backend call, then build the success value from its response
OneCall(op, kwargs, response, fail, exc) ==
    Issue(<<Planned(op, kwargs, response)>>, 1, fail, exc)

Outcome(cs, value) ==
    [calls |-> cs,
     result |-> IF Raised(cs) THEN ErrorEnvelope(TheException(cs)) ELSE value]

Keys == {"f.txt", "dir/b.bin"}

LocalPaths == {"/tmp/f.txt"}

----------------------------------------------------------------------------
(* create_bucket *)

Regions == {"us-east-1", "us-west-1", "eu-west-1", "US-EAST-1"}

DefaultRegion == "us-west-1"

PabAll == [BlockPublicAcls |-> TRUE, IgnorePublicAcls |-> TRUE,
           BlockPublicPolicy |-> TRUE, RestrictPublicBuckets |-> TRUE]

ConfigKeys == {"blockPublicAccess", "versioning", "encryption"}

ConfigValues(k) ==
    CASE k = "blockPublicAccess" -> {PyDict(EmptyDict), PyDict(PabAll)}
      [] k = "versioning" -> {PyBool(TRUE), PyBool(FALSE)}
      [] k = "encryption" -> {PyStr(""), PyStr("AES256")}

ConfigDicts ==
    UNION { { d \in [ks -> UNION {ConfigValues(k) : k \in ConfigKeys}] :
                \A k \in ks : d[k] \in ConfigValues(k) } : ks \in SUBSET ConfigKeys }

Configs == {PyNone} \cup {PyDict(d) : d \in ConfigDicts}

\* variant: the region is always passed on, "us-east-1" included
LocationConstraintAlways(region) == PyStr(region)

LocationConstraint(region) == IF region # "us-east-1" THEN PyStr(region) ELSE PyNone

VersioningStatus(v) == IF Truthy(v) THEN PyStr("Enabled") ELSE PyStr("Suspended")

\* s3_client.create_bucket(Bucket=..., CreateBucketConfiguration={...})
create_call(bucket_name, region) ==
    <<Planned("create_bucket",
              [Bucket |-> bucket_name,
               CreateBucketConfiguration |->
                   [LocationConstraint |-> LocationConstraint(region)]],
              NoResponse)>>

\* if config.get("blockPublicAccess"): s3_client.put_public_access_block(...)
public_access_block_call(bucket_name, config) ==
    IF Truthy(DictGet(config.v, "blockPublicAccess"))
    THEN <<Planned("put_public_access_block",
                   [Bucket |-> bucket_name,
                    PublicAccessBlockConfiguration |-> config.v["blockPublicAccess"]],
                   NoResponse)>>
    ELSE <<>>

\* if config.get("versioning"): s3_client.put_bucket_versioning(...)
versioning_call(bucket_name, config) ==
    IF Truthy(DictGet(config.v, "versioning"))
    THEN <<Planned("put_bucket_versioning",
                   [Bucket |-> bucket_name,
                    VersioningConfiguration |->
                        [Status |-> VersioningStatus(config.v["versioning"])]],
                   NoResponse)>>
    ELSE <<>>

\* if config.get("encryption"): s3_client.put_bucket_encryption(...)
encryption_call(bucket_name, config) ==
    IF Truthy(DictGet(config.v, "encryption"))
    THEN <<Planned("put_bucket_encryption",
                   [Bucket |-> bucket_name,
                    ServerSideEncryptionConfiguration |->
                        [Rules |-> <<[ApplyServerSideEncryptionByDefault |->
                                        [SSEAlgorithm |-> config.v["encryption"]]]>>]],
                   NoResponse)>>
    ELSE <<>>

\* variant: default encryption is configured before versioning
sub_configuration_reordered(bucket_name, config) ==
    IF Truthy(config)
    THEN public_access_block_call(bucket_name, config)
         \o encryption_call(bucket_name, config)
         \o versioning_call(bucket_name, config)
    ELSE <<>>

\* if config: the three optional calls, in the order of the statements
sub_configuration(bucket_name, config) ==
    IF Truthy(config)
    THEN public_access_block_call(bucket_name, config)
         \o versioning_call(bucket_name, config)
         \o encryption_call(bucket_name, config)
    ELSE <<>>

\* the backend calls of the try block, were none to raise
create_bucket_plan(bucket_name, region, config) ==
    create_call(bucket_name, region) \o sub_configuration(bucket_name, config)

\* variant: a failure after the creation call is compensated by delete_bucket
create_bucket_rolling_back(bucket_name, region, config, fail, exc) ==
    LET cs == Issue(create_bucket_plan(bucket_name, region, config), 1, fail, exc)
        undo == IF Raised(cs) /\ Len(cs) > 1
                THEN <<Call("delete_bucket", [Bucket |-> bucket_name], <<>>, NoResponse)>>
                ELSE <<>>
    IN [calls |-> cs \o undo,
        result |-> IF Raised(cs) THEN ErrorEnvelope(TheException(cs))
                   ELSE PyDict([success |-> PyBool(TRUE), bucket |-> PyStr(bucket_name)])]

create_bucket(bucket_name, region, config, fail, exc) ==
    Outcome(Issue(create_bucket_plan(bucket_name, region, config), 1, fail, exc),
            PyDict([success |-> PyBool(TRUE), bucket |-> PyStr(bucket_name)]))

CreateBucket ==
    /\ tool = "none"
    /\ \E bucket_name \in BucketNames,
          region \in {<<>>} \cup {<<r>> : r \in Regions},
          config \in Configs, exc \in BackendExceptions :
        LET r == WithDefault(region, DefaultRegion) IN
        \E fail \in 0..Len(create_bucket_plan(bucket_name, r, config)) :
            Returns("create_bucket",
                    [bucket_name |-> bucket_name, region |-> r, config |-> config],
                    create_bucket(bucket_name, r, config, fail, exc))

----------------------------------------------------------------------------
(* list_buckets *)

BucketListings ==
    { <<>>, <<[Name |-> "demo"]>>, <<[Name |-> "logs"], [Name |-> "demo"]>> }

list_buckets(response, fail, exc) ==
    Outcome(OneCall("list_buckets", EmptyDict, response, fail, exc),
            PyDict([buckets |->
                PyList([i \in 1..Len(response.Buckets) |-> response.Buckets[i].Name])]))

ListBuckets ==
    /\ tool = "none"
    /\ \E listing \in BucketListings, fail \in 0..1, exc \in BackendExceptions :
        Returns("list_buckets", NoArgs,
                list_buckets([Buckets |-> listing], fail, exc))

----------------------------------------------------------------------------
(* put_object, upload_local_file, download_file_to_local, delete_object *)

Bodies == {"", "hello"}

put_object(bucket_name, key, body, fail, exc) ==
    Outcome(OneCall("put_object",
                    [Bucket |-> bucket_name, Key |-> key, Body |-> body],
                    NoResponse, fail, exc),
            Success)

PutObject ==
    /\ tool = "none"
    /\ \E bucket_name \in BucketNames, key \in Keys, body \in Bodies,
          fail \in 0..1, exc \in BackendExceptions :
        Returns("put_object",
                [bucket_name |-> bucket_name, key |-> key, body |-> body],
                put_object(bucket_name, key, body, fail, exc))

\* s3_client.upload_file(Filename, Bucket, Key), positional
upload_local_file(bucket_name, local_path, key, fail, exc) ==
    Outcome(OneCall("upload_file",
                    [Filename |-> local_path, Bucket |-> bucket_name, Key |-> key],
                    NoResponse, fail, exc),
            Success)

UploadLocalFile ==
    /\ tool = "none"
    /\ \E bucket_name \in BucketNames, local_path \in LocalPaths, key \in Keys,
          fail \in 0..1, exc \in BackendExceptions :
        Returns("upload_local_file",
                [bucket_name |-> bucket_name, local_path |-> local_path, key |-> key],
                upload_local_file(bucket_name, local_path, key, fail, exc))

\* s3_client.download_file(Bucket, Key, Filename), positional
download_file_to_local(bucket_name, key, local_path, fail, exc) ==
    Outcome(OneCall("download_file",
                    [Bucket |-> bucket_name, Key |-> key, Filename |-> local_path],
                    NoResponse, fail, exc),
            Success)

DownloadFileToLocal ==
    /\ tool = "none"
    /\ \E bucket_name \in BucketNames, key \in Keys, local_path \in LocalPaths,
          fail \in 0..1, exc \in BackendExceptions :
        Returns("download_file_to_local",
                [bucket_name |-> bucket_name, key |-> key, local_path |-> local_path],
                download_file_to_local(bucket_name, key, local_path, fail, exc))

delete_object(bucket_name, key, fail, exc) ==
    Outcome(OneCall("delete_object", [Bucket |-> bucket_name, Key |-> key],
                    NoResponse, fail, exc),
            Success)

DeleteObject ==
    /\ tool = "none"
    /\ \E bucket_name \in BucketNames, key \in Keys,
          fail \in 0..1, exc \in BackendExceptions :
        Returns("delete_object", [bucket_name |-> bucket_name, key |-> key],
                delete_object(bucket_name, key, fail, exc))

----------------------------------------------------------------------------
(* put_bucket_policy, get_bucket_policy, delete_bucket_policy, delete_bucket *)

Policies == {"{\"Version\":\"2012-10-17\",\"Statement\":[]}", "not json"}

put_bucket_policy(bucket_name, policy_json, fail, exc) ==
    Outcome(OneCall("put_bucket_policy",
                    [Bucket |-> bucket_name, Policy |-> policy_json],
                    NoResponse, fail, exc),
            Success)

PutBucketPolicy ==
    /\ tool = "none"
    /\ \E bucket_name \in BucketNames, policy_json \in Policies,
          fail \in 0..1, exc \in BackendExceptions :
        Returns("put_bucket_policy",
                [bucket_name |-> bucket_name, policy_json |-> policy_json],
                put_bucket_policy(bucket_name, policy_json, fail, exc))

get_bucket_policy(bucket_name, response, fail, exc) ==
    Outcome(OneCall("get_bucket_policy", [Bucket |-> bucket_name],
                    response, fail, exc),
            PyDict([success |-> PyBool(TRUE), policy |-> PyStr(response.Policy)]))

GetBucketPolicy ==
    /\ tool = "none"
    /\ \E bucket_name \in BucketNames, policy \in Policies,
          fail \in 0..1, exc \in BackendExceptions :
        Returns("get_bucket_policy", [bucket_name |-> bucket_name],
                get_bucket_policy(bucket_name, [Policy |-> policy], fail, exc))

delete_bucket_policy(bucket_name, fail, exc) ==
    Outcome(OneCall("delete_bucket_policy", [Bucket |-> bucket_name],
                    NoResponse, fail, exc),
            Success)

DeleteBucketPolicy ==
    /\ tool = "none"
    /\ \E bucket_name \in BucketNames, fail \in 0..1, exc \in BackendExceptions :
        Returns("delete_bucket_policy", [bucket_name |-> bucket_name],
                delete_bucket_policy(bucket_name, fail, exc))

delete_bucket(bucket_name, fail, exc) ==
    Outcome(OneCall("delete_bucket", [Bucket |-> bucket_name],
                    NoResponse, fail, exc),
            Success)

DeleteBucket ==
    /\ tool = "none"
    /\ \E bucket_name \in BucketNames, fail \in 0..1, exc \in BackendExceptions :
        Returns("delete_bucket", [bucket_name |-> bucket_name],
                delete_bucket(bucket_name, fail, exc))

----------------------------------------------------------------------------
(* copy_object *)

ETags == {"\"9b2cf535f27731c974343645a3985328\""}

copy_object(source_bucket, source_key, dest_bucket, dest_key, response, fail, exc) ==
    Outcome(OneCall("copy_object",
                    [CopySource |-> [Bucket |-> source_bucket, Key |-> source_key],
                     Bucket |-> dest_bucket, Key |-> dest_key],
                    response, fail, exc),
            PyDict([success |-> PyBool(TRUE),
                    copy_id |-> PyStr(response.CopyObjectResult.ETag)]))

CopyObject ==
    /\ tool = "none"
    /\ \E source_bucket \in BucketNames, source_key \in Keys,
          dest_bucket \in BucketNames, dest_key \in Keys, etag \in ETags,
          fail \in 0..1, exc \in BackendExceptions :
        Returns("copy_object",
                [source_bucket |-> source_bucket, source_key |-> source_key,
                 dest_bucket |-> dest_bucket, dest_key |-> dest_key],
                copy_object(source_bucket, source_key, dest_bucket, dest_key,
                            [CopyObjectResult |-> [ETag |-> etag]], fail, exc))

----------------------------------------------------------------------------
(* list_bucket *)

Prefixes == {"", "dir/"}

DefaultKeyPrefix == ""

DateTimes ==
    { [year |-> 2023, month |-> 1, day |-> 1, hour |-> 0, minute |-> 0,
       second |-> 0, microsecond |-> 0, utc |-> TRUE],
      [year |-> 2024, month |-> 2, day |-> 29, hour |-> 13, minute |-> 5,
       second |-> 9, microsecond |-> 250, utc |-> FALSE] }

\* datetime.isoformat(): YYYY-MM-DDTHH:MM:SS[.ffffff][+00:00]
isoformat(dt) ==
    Pad(dt.year, 4) \o <<"-">> \o Pad(dt.month, 2) \o <<"-">> \o Pad(dt.day, 2)
    \o <<"T">> \o Pad(dt.hour, 2) \o <<":">> \o Pad(dt.minute, 2)
    \o <<":">> \o Pad(dt.second, 2)
    \o (IF dt.microsecond # 0 THEN <<".">> \o Pad(dt.microsecond, 6) ELSE <<>>)
    \o (IF dt.utc THEN <<"+00:00">> ELSE <<>>)

StoredObjects ==
    { [Key |-> "f.txt", Size |-> 0, LastModified |-> dt, ETag |-> "\"d41d8\""] :
          dt \in DateTimes }
    \cup { [Key |-> "dir/b.bin", Size |-> 1234, LastModified |-> dt,
            ETag |-> "\"9b2cf\""] : dt \in {CHOOSE d \in DateTimes : d.utc} }

SeqsUpTo(S, n) == UNION { [1..k -> S] : k \in 0..n }

\* list_objects_v2 responses: "Contents" is left out when nothing matches
Listings ==
    { [KeyCount |-> 0] }
    \cup { [KeyCount |-> Len(objs), Contents |-> objs] :
              objs \in SeqsUpTo(StoredObjects, MaxObjs) }

file_entry(obj) ==
    [key |-> PyStr(obj.Key), size |-> PyInt(obj.Size),
     last_modified |-> PyStr(isoformat(obj.LastModified))]

\* variant: response["Contents"] is read without the membership test
list_bucket_requiring_contents(bucket_name, key_prefix, response, fail, exc) ==
    LET cs == OneCall("list_objects_v2",
                      [Bucket |-> bucket_name, Prefix |-> key_prefix],
                      response, fail, exc)
    IN [calls |-> cs,
        result |->
            IF Raised(cs) THEN ErrorEnvelope(TheException(cs))
            ELSE IF "Contents" \notin DOMAIN response
                 THEN ErrorEnvelope(KeyError("Contents"))
            ELSE PyDict([bucket |-> PyStr(bucket_name),
                         files |-> PyList([i \in 1..Len(response.Contents) |->
                                     PyDict(file_entry(response.Contents[i]))])])]

list_bucket(bucket_name, key_prefix, response, fail, exc) ==
    LET files == IF "Contents" \in DOMAIN response
                 THEN [i \in 1..Len(response.Contents) |->
                          PyDict(file_entry(response.Contents[i]))]
                 ELSE <<>>
    IN Outcome(OneCall("list_objects_v2",
                       [Bucket |-> bucket_name, Prefix |-> key_prefix],
                       response, fail, exc),
               PyDict([bucket |-> PyStr(bucket_name), files |-> PyList(files)]))

ListBucket ==
    /\ tool = "none"
    /\ \E bucket_name \in BucketNames,
          key_prefix \in {<<>>} \cup {<<p>> : p \in Prefixes},
          response \in Listings, fail \in 0..1, exc \in BackendExceptions :
        LET p == WithDefault(key_prefix, DefaultKeyPrefix) IN
        Returns("list_bucket", [bucket_name |-> bucket_name, key_prefix |-> p],
                list_bucket(bucket_name, p, response, fail, exc))

----------------------------------------------------------------------------
(* get_object *)

\* 'A', the two bytes of U+00E9, and a byte that starts no UTF-8 sequence.
\* No value is the lead byte of a three- or four-byte form (224..244).
ByteValues == {65, 195, 169, 255}

ObjectBodies == SeqsUpTo(ByteValues, MaxBody)

UnicodeDecodeError(b, p, why) ==
    [cls |-> "UnicodeDecodeError", byte |-> b, pos |-> p, reason |-> why]

\* bytes.decode("utf-8") from byte i on, for one- and two-byte forms:
\* the code points, or the exception of the first undecodable byte
RECURSIVE decode(_, _)
decode(bytes, i) ==
    IF i > Len(bytes) THEN [raises |-> <<>>, text |-> <<>>]
    ELSE LET b == bytes[i]
             rest(n, cp) ==
                 LET r == decode(bytes, i + n) IN
                 IF r.raises # <<>> THEN r
                 ELSE [raises |-> <<>>, text |-> <<cp>> \o r.text]
         IN IF b < 128 THEN rest(1, b)
            ELSE IF b < 194 \/ b > 244
                 THEN [raises |-> <<UnicodeDecodeError(b, i - 1, "invalid start byte")>>]
            ELSE IF i = Len(bytes)
                 THEN [raises |-> <<UnicodeDecodeError(b, i - 1, "unexpected end of data")>>]
            ELSE IF bytes[i + 1] < 128 \/ bytes[i + 1] > 191
                 THEN [raises |-> <<UnicodeDecodeError(b, i - 1, "invalid continuation byte")>>]
            ELSE rest(2, (b % 32) * 64 + (bytes[i + 1] % 64))

\* variant: the decoded body is wrapped in a mapping
get_object_wrapped(bucket_name, key, response, fail, exc) ==
    LET cs == OneCall("get_object", [Bucket |-> bucket_name, Key |-> key],
                      response, fail, exc)
        d == decode(response.Body, 1)
    IN [calls |-> cs,
        result |-> IF Raised(cs) THEN ErrorEnvelope(TheException(cs))
                   ELSE IF d.raises # <<>> THEN ErrorEnvelope(d.raises[1])
                   ELSE PyDict([content |-> PyStr(d.text)])]

get_object(bucket_name, key, response, fail, exc) ==
    LET cs == OneCall("get_object", [Bucket |-> bucket_name, Key |-> key],
                      response, fail, exc)
        d == decode(response.Body, 1)
    IN [calls |-> cs,
        result |-> IF Raised(cs) THEN ErrorEnvelope(TheException(cs))
                   ELSE IF d.raises # <<>> THEN ErrorEnvelope(d.raises[1])
                   ELSE PyStr(d.text)]

GetObject ==
    /\ tool = "none"
    /\ \E bucket_name \in BucketNames, key \in Keys, body \in ObjectBodies,
          fail \in 0..1, exc \in BackendExceptions :
        Returns("get_object", [bucket_name |-> bucket_name, key |-> key],
                get_object(bucket_name, key, [Body |-> body], fail, exc))

----------------------------------------------------------------------------
(* generate_presigned_url *)

LowerCase ==
    <<"a", "b", "c", "d", "e", "f", "g", "h", "i", "j", "k", "l", "m",
      "n", "o", "p", "q", "r", "s", "t", "u", "v", "w", "x", "y", "z">>

UpperCase ==
    <<"A", "B", "C", "D", "E", "F", "G", "H", "I", "J", "K", "L", "M",
      "N", "O", "P", "Q", "R", "S", "T", "U", "V", "W", "X", "Y", "Z">>

\* str.upper() on ASCII text, a text being the sequence of its characters
upper(s) ==
    [i \in 1..Len(s) |->
        IF \E j \in 1..26 : LowerCase[j] = s[i]
        THEN UpperCase[CHOOSE j \in 1..26 : LowerCase[j] = s[i]]
        ELSE s[i]]

GET == <<"G", "E", "T">>

HttpMethods ==
    { GET, <<"g", "e", "t">>, <<"G", "e", "t">>, <<"g", "E", "T">>,
      <<"P", "U", "T">>, <<"p", "u", "t">>, <<"P", "O", "S", "T">>,
      <<"D", "E", "L", "E", "T", "E">>, <<"G", "E", "T", " ">>,
      <<"G", "E">>, <<>> }

DefaultHttpMethod == GET

DefaultExpiresIn == 3600

ExpiresIns == {-1, 0, 60, 604801}

SignedUrls ==
    { "https://demo.s3.amazonaws.com/f.txt?X-Amz-Signature=0a1b",
      "https://logs.s3.amazonaws.com/f.txt?X-Amz-Signature=2c3d" }

\* variant: http_method is compared without upper()
ClientMethodCaseSensitive(http_method) ==
    IF http_method = GET THEN "get_object" ELSE "put_object"

ClientMethod(http_method) ==
    IF upper(http_method) = GET THEN "get_object" ELSE "put_object"

generate_presigned_url(bucket_name, key, expires_in, http_method, response, fail, exc) ==
    Outcome(OneCall("generate_presigned_url",
                    [ClientMethod |-> ClientMethod(http_method),
                     Params |-> [Bucket |-> bucket_name, Key |-> key],
                     ExpiresIn |-> expires_in],
                    response, fail, exc),
            PyDict([success |-> PyBool(TRUE), url |-> PyStr(response)]))

GeneratePresignedUrl ==
    /\ tool = "none"
    /\ \E bucket_name \in BucketNames, key \in Keys,
          expires_in \in {<<>>} \cup {<<n>> : n \in ExpiresIns},
          http_method \in {<<>>} \cup {<<m>> : m \in HttpMethods},
          url \in SignedUrls, fail \in 0..1, exc \in BackendExceptions :
        LET n == WithDefault(expires_in, DefaultExpiresIn)
            m == WithDefault(http_method, DefaultHttpMethod)
        IN Returns("generate_presigned_url",
                   [bucket_name |-> bucket_name, key |-> key, expires_in |-> n,
                    http_method |-> m,
                    defaulted |-> [expires_in |-> expires_in = <<>>,
                                   http_method |-> http_method = <<>>]],
                   generate_presigned_url(bucket_name, key, n, m, url, fail, exc))

----------------------------------------------------------------------------
(* get_bucket_lifecycle, put_bucket_lifecycle *)

RuleFields ==
    <<"ID", "Status", "Transitions", "Expiration",
      "NoncurrentVersionExpiration", "NoncurrentVersionTransitions">>

\* "Filter" and "Prefix" are rule fields of the backend that the adapter's
\* fixed field set leaves out
RuleKeys == {RuleFields[i] : i \in 1..Len(RuleFields)} \cup {"Filter"}

RuleValue(k) ==
    CASE k = "ID" -> PyStr("move-to-ia")
      [] k = "Status" -> PyStr("Enabled")
      [] k = "Transitions" -> PyList(<<[Days |-> 30, StorageClass |-> "STANDARD_IA"]>>)
      [] k = "Expiration" -> PyDict([Days |-> 365])
      [] k = "NoncurrentVersionExpiration" -> PyDict([NoncurrentDays |-> 90])
      [] k = "NoncurrentVersionTransitions" ->
            PyList(<<[NoncurrentDays |-> 30, StorageClass |-> "GLACIER"]>>)
      [] k = "Filter" -> PyDict([Prefix |-> "logs/"])

\* rule mappings with every key, with no key, and with every key but one
RuleShapes == {RuleKeys, {}} \cup {RuleKeys \ {k} : k \in RuleKeys}

RuleInputs == { [k \in ks |-> RuleValue(k)] : ks \in RuleShapes }

\* {k: v for k, v in rule.items()}
dict_copy(d) == [k \in DOMAIN d |-> d[k]]

get_bucket_lifecycle(bucket_name, response, fail, exc) ==
    Outcome(OneCall("get_bucket_lifecycle_configuration", [Bucket |-> bucket_name],
                    response, fail, exc),
            PyDict([rules |-> PyList([i \in 1..Len(response.Rules) |->
                                         PyDict(dict_copy(response.Rules[i]))])]))

GetBucketLifecycle ==
    /\ tool = "none"
    /\ \E bucket_name \in BucketNames, rules \in SeqsUpTo(RuleInputs, 1),
          fail \in 0..1, exc \in BackendExceptions :
        Returns("get_bucket_lifecycle", [bucket_name |-> bucket_name],
                get_bucket_lifecycle(bucket_name, [Rules |-> rules], fail, exc))

\* variant: only the fields the input rule has are submitted
formatted_rule_sparse(rule) ==
    [k \in DOMAIN rule \cap {RuleFields[i] : i \in 1..Len(RuleFields)} |-> rule[k]]

formatted_rule(rule) ==
    [ID |-> DictGet(rule, "ID"),
     Status |-> DictGet(rule, "Status"),
     Transitions |-> DictGetDefault(rule, "Transitions", PyList(<<>>)),
     Expiration |-> DictGet(rule, "Expiration"),
     NoncurrentVersionExpiration |-> DictGet(rule, "NoncurrentVersionExpiration"),
     NoncurrentVersionTransitions |->
         DictGetDefault(rule, "NoncurrentVersionTransitions", PyList(<<>>))]

formatted_rules(lifecycle_config) ==
    [i \in 1..Len(lifecycle_config) |-> formatted_rule(lifecycle_config[i])]

put_bucket_lifecycle(bucket_name, lifecycle_config, fail, exc) ==
    Outcome(OneCall("put_bucket_lifecycle_configuration",
                    [Bucket |-> bucket_name,
                     LifecycleConfiguration |->
                         [Rules |-> formatted_rules(lifecycle_config)]],
                    NoResponse, fail, exc),
            Success)

PutBucketLifecycle ==
    /\ tool = "none"
    /\ \E bucket_name \in BucketNames,
          lifecycle_config \in SeqsUpTo(RuleInputs, MaxRules),
          fail \in 0..1, exc \in BackendExceptions :
        Returns("put_bucket_lifecycle",
                [bucket_name |-> bucket_name, lifecycle_config |-> lifecycle_config],
                put_bucket_lifecycle(bucket_name, lifecycle_config, fail, exc))

----------------------------------------------------------------------------
(* get_object_tagging, put_object_tagging *)

TagKeys == {"Key", "Value", "Note"}

TagValues(k) ==
    CASE k = "Key" -> {"env", "team"}
      [] k = "Value" -> {"prod"}
      [] k = "Note" -> {"x"}

TagInputs ==
    UNION { { d \in [ks -> UNION {TagValues(k) : k \in TagKeys}] :
                \A k \in ks : d[k] \in TagValues(k) } : ks \in SUBSET TagKeys }

TagSets == SeqsUpTo({[Key |-> "env", Value |-> "prod"], [Key |-> "team", Value |-> "s3"]}, 2)

get_object_tagging(bucket_name, key, response, fail, exc) ==
    Outcome(OneCall("get_object_tagging", [Bucket |-> bucket_name, Key |-> key],
                    response, fail, exc),
            PyDict([tags |-> PyList([i \in 1..Len(response.TagSet) |->
                        [Key |-> response.TagSet[i].Key,
                         Value |-> response.TagSet[i].Value]])]))

GetObjectTagging ==
    /\ tool = "none"
    /\ \E bucket_name \in BucketNames, key \in Keys, tagset \in TagSets,
          fail \in 0..1, exc \in BackendExceptions :
        Returns("get_object_tagging", [bucket_name |-> bucket_name, key |-> key],
                get_object_tagging(bucket_name, key, [TagSet |-> tagset], fail, exc))

\* variant: a tag that has Key and Value is submitted as it came
formatted_tag_unfiltered(tag) ==
    IF "Key" \notin DOMAIN tag THEN [raises |-> <<KeyError("Key")>>]
    ELSE IF "Value" \notin DOMAIN tag THEN [raises |-> <<KeyError("Value")>>]
    ELSE [raises |-> <<>>, value |-> tag]

\* {"Key": tag["Key"], "Value": tag["Value"]}: the subscripts are evaluated
\* left to right and the first missing key raises KeyError
formatted_tag(tag) ==
    IF "Key" \notin DOMAIN tag THEN [raises |-> <<KeyError("Key")>>]
    ELSE IF "Value" \notin DOMAIN tag THEN [raises |-> <<KeyError("Value")>>]
    ELSE [raises |-> <<>>, value |-> [Key |-> tag["Key"], Value |-> tag["Value"]]]

\* the list comprehension over tags: the formatted tags, or the exception
\* of the first tag that cannot be formatted
RECURSIVE formatted_tags(_, _)
formatted_tags(tags, i) ==
    IF i > Len(tags) THEN [raises |-> <<>>, value |-> <<>>]
    ELSE LET f == formatted_tag(tags[i]) IN
         IF f.raises # <<>> THEN f
         ELSE LET r == formatted_tags(tags, i + 1) IN
              IF r.raises # <<>> THEN r
              ELSE [raises |-> <<>>, value |-> <<f.value>> \o r.value]

put_object_tagging(bucket_name, key, tags, fail, exc) ==
    LET f == formatted_tags(tags, 1) IN
    IF f.raises # <<>>
    THEN [calls |-> <<>>, result |-> ErrorEnvelope(f.raises[1])]
    ELSE Outcome(OneCall("put_object_tagging",
                         [Bucket |-> bucket_name, Key |-> key,
                          Tagging |-> [TagSet |-> f.value]],
                         NoResponse, fail, exc),
                 Success)

PutObjectTagging ==
    /\ tool = "none"
    /\ \E bucket_name \in BucketNames, key \in Keys,
          tags \in SeqsUpTo(TagInputs, MaxTags),
          fail \in 0..1, exc \in BackendExceptions :
        Returns("put_object_tagging",
                [bucket_name |-> bucket_name, key |-> key, tags |-> tags],
                put_object_tagging(bucket_name, key, tags, fail, exc))

----------------------------------------------------------------------------
(* get_bucket_cors *)

CorsRules ==
    { [AllowedMethods |-> <<"GET", "PUT">>, AllowedOrigins |-> <<"https://example.com">>,
       MaxAgeSeconds |-> 3000],
      [AllowedMethods |-> <<"GET">>, AllowedOrigins |-> <<"*">>] }

get_bucket_cors(bucket_name, response, fail, exc) ==
    Outcome(OneCall("get_bucket_cors", [Bucket |-> bucket_name],
                    response, fail, exc),
            PyDict([cors_rules |-> PyList([i \in 1..Len(response.CORSRules) |->
                                              dict_copy(response.CORSRules[i])])]))

GetBucketCors ==
    /\ tool = "none"
    /\ \E bucket_name \in BucketNames, rules \in SeqsUpTo(CorsRules, 2),
          fail \in 0..1, exc \in BackendExceptions :
        Returns("get_bucket_cors", [bucket_name |-> bucket_name],
                get_bucket_cors(bucket_name, [CORSRules |-> rules], fail, exc))

----------------------------------------------------------------------------
(* The dispatcher hands the result to the caller and waits for a request *)

Reply ==
    /\ tool # "none"
    /\ tool' = "none"
    /\ args' = NoArgs
    /\ calls' = <<>>
    /\ result' = PyNone
    /\ UNCHANGED store

Init ==
    /\ store = [b \in {} |-> NewBucket]
    /\ tool = "none"
    /\ args = NoArgs
    /\ calls = <<>>
    /\ result = PyNone

Next ==
    \/ ListBuckets
    \/ CreateBucket
    \/ PutObject
    \/ UploadLocalFile
    \/ DownloadFileToLocal
    \/ DeleteObject
    \/ PutBucketPolicy
    \/ GetBucketPolicy
    \/ DeleteBucketPolicy
    \/ DeleteBucket
    \/ CopyObject
    \/ ListBucket
    \/ GetObject
    \/ GeneratePresignedUrl
    \/ GetBucketLifecycle
    \/ PutBucketLifecycle
    \/ GetObjectTagging
    \/ PutObjectTagging
    \/ GetBucketCors
    \/ Reply

Spec == Init /\ [][Next]_vars

----------------------------------------------------------------------------
(* Properties *)

Returned == tool # "none"

Succeeded == Returned /\ ~Raised(calls)

IsErrorEnvelope(r) == r.t = "dict" /\ DOMAIN r.v = {"error"}

\* C1: whenever a backend call of an invocation raises, the handler returns
\* a mapping whose only field is error, holding the exception's message.
C1_BackendErrorBecomesEnvelope ==
    (Returned /\ Raised(calls)) =>
        /\ IsErrorEnvelope(result)
        /\ result.v.error.t = "str"
        /\ result.v.error.v = <<TheException(calls).msg>>

C1_Witness ==
    /\ tool = "create_bucket"
    /\ Len(calls) = 3
    /\ calls[3].raises # <<>>
    /\ IsErrorEnvelope(result)
    /\ result.v.error.v = <<"Could not connect to the endpoint URL">>

\* the success fields of the operation table
SuccessFields(t) ==
    CASE t = "list_buckets" -> {"buckets"}
      [] t = "create_bucket" -> {"success", "bucket"}
      [] t = "list_bucket" -> {"bucket", "files"}
      [] t = "generate_presigned_url" -> {"success", "url"}
      [] t = "get_bucket_policy" -> {"success", "policy"}
      [] t = "copy_object" -> {"success", "copy_id"}
      [] t = "get_bucket_lifecycle" -> {"rules"}
      [] t = "get_object_tagging" -> {"tags"}
      [] t = "get_bucket_cors" -> {"cors_rules"}
      [] OTHER -> {"success"}

HasSuccessShape ==
    IF tool = "get_object" THEN result.t = "str"
    ELSE result.t = "dict" /\ DOMAIN result.v = SuccessFields(tool)

\* well-formed UTF-8 made of one- and two-byte sequences
RECURSIVE IsUtf8(_)
IsUtf8(bytes) ==
    \/ bytes = <<>>
    \/ Head(bytes) < 128 /\ IsUtf8(Tail(bytes))
    \/ /\ Len(bytes) >= 2
       /\ Head(bytes) \in 194..223
       /\ bytes[2] \in 128..191
       /\ IsUtf8(Tail(Tail(bytes)))

TagsComplete ==
    \A i \in 1..Len(args.tags) : {"Key", "Value"} \subseteq DOMAIN args.tags[i]

\* C2 as stated: whenever no backend call raises, the result has exactly the
\* tool's success fields (get_object: a text), whatever the arguments.
C2_SuccessShapeWhateverInput == Succeeded => HasSuccessShape

\* C2, amended: whenever no backend call raises, every tag passed to
\* put_object_tagging has Key and Value, and the body get_object receives is
\* valid UTF-8, the result has exactly the tool's success fields
\* (get_object: the decoded text) and no error field.
C2_SuccessShape ==
    ( /\ Succeeded
      /\ tool = "put_object_tagging" => TagsComplete
      /\ tool = "get_object" => IsUtf8(calls[1].response.Body) )
    => HasSuccessShape

C2_Witness ==
    /\ tool = "put_object_tagging"
    /\ Len(args.tags) = 2
    /\ TagsComplete
    /\ "Note" \in DOMAIN args.tags[1]
    /\ Succeeded
    /\ result = Success

CreatedThenFailed ==
    /\ tool = "create_bucket"
    /\ Len(calls) > 1
    /\ calls[1].raises = <<>>
    /\ \E i \in 2..Len(calls) : calls[i].raises # <<>>

\* the sub-configuration a successful call asked for is what the bucket has
InPlace(bucket, c) ==
    CASE c.op = "put_public_access_block" ->
            bucket.pab = c.kwargs.PublicAccessBlockConfiguration
      [] c.op = "put_bucket_versioning" ->
            bucket.versioning = c.kwargs.VersioningConfiguration.Status
      [] c.op = "put_bucket_encryption" ->
            bucket.encryption =
                c.kwargs.ServerSideEncryptionConfiguration.Rules[1].ApplyServerSideEncryptionByDefault.SSEAlgorithm
      [] OTHER -> TRUE

\* C3: when create_bucket's creation call succeeds and a later call raises,
\* the error envelope is returned, the raising call is the last call issued,
\* no call is repeated, no delete_bucket is issued, and the bucket and the
\* sub-configuration applied before the failure are in the backend.
C3_NoRollback ==
    CreatedThenFailed =>
        /\ IsErrorEnvelope(result)
        /\ \A i \in 1..(Len(calls) - 1) : calls[i].raises = <<>>
        /\ \A i, j \in 1..Len(calls) : i # j => calls[i].op # calls[j].op
        /\ \A i \in 1..Len(calls) : calls[i].op # "delete_bucket"
        /\ args.bucket_name \in DOMAIN store
        /\ \A i \in 2..(Len(calls) - 1) : InPlace(store[args.bucket_name], calls[i])

C3_Witness ==
    /\ CreatedThenFailed
    /\ Len(calls) = 3
    /\ calls[2].op = "put_public_access_block"
    /\ calls[3].op = "put_bucket_versioning"
    /\ Truthy(DictGet(args.config.v, "encryption"))
    /\ args.bucket_name \in DOMAIN store
    /\ store[args.bucket_name].pab.t = "dict"
    /\ store[args.bucket_name].versioning.t = "none"

SubRank(op) ==
    CASE op = "put_public_access_block" -> 1
      [] op = "put_bucket_versioning" -> 2
      [] op = "put_bucket_encryption" -> 3
      [] OTHER -> 0

OptionOf(op) ==
    CASE op = "put_public_access_block" -> "blockPublicAccess"
      [] op = "put_bucket_versioning" -> "versioning"
      [] op = "put_bucket_encryption" -> "encryption"
      [] OTHER -> "none"

OnlyVersioningTrue ==
    /\ args.config.t = "dict"
    /\ DOMAIN args.config.v = {"versioning"}
    /\ args.config.v["versioning"].v = TRUE

\* C4: in a create_bucket invocation without a failure the first call is the
\* creation call; the calls after it are sub-configuration calls for options
\* the config contains, at most one each, in the order public-access block,
\* versioning, encryption; without config there is none; with the config
\* {"versioning": true} there is exactly the versioning call, status Enabled.
C4_CallSequence ==
    (tool = "create_bucket" /\ ~Raised(calls)) =>
        /\ Len(calls) >= 1
        /\ calls[1].op = "create_bucket"
        /\ \A i \in 2..Len(calls) :
              /\ SubRank(calls[i].op) > 0
              /\ args.config.t = "dict"
              /\ OptionOf(calls[i].op) \in DOMAIN args.config.v
        /\ \A i, j \in 2..Len(calls) :
              i < j => SubRank(calls[i].op) < SubRank(calls[j].op)
        /\ args.config.t = "none" => Len(calls) = 1
        /\ OnlyVersioningTrue =>
              /\ Len(calls) = 2
              /\ calls[2].op = "put_bucket_versioning"
              /\ calls[2].kwargs.VersioningConfiguration.Status = PyStr("Enabled")

C4_Witness ==
    /\ tool = "create_bucket"
    /\ ~Raised(calls)
    /\ OnlyVersioningTrue
    /\ Len(calls) = 2
    /\ result.v.bucket = PyStr("demo")

RequestedLocation == calls[1].kwargs.CreateBucketConfiguration.LocationConstraint

\* C5: create_bucket's creation call carries no location constraint exactly
\* when region is "us-east-1", and otherwise carries region itself.
C5_LocationConstraint ==
    tool = "create_bucket" =>
        /\ calls[1].op = "create_bucket"
        /\ RequestedLocation.t = "none" <=> args.region = "us-east-1"
        /\ args.region # "us-east-1" =>
              RequestedLocation.t = "str" /\ RequestedLocation.v = args.region

C5_Witness ==
    /\ tool = "create_bucket"
    /\ args.region = "us-east-1"
    /\ RequestedLocation.t = "none"
    /\ Succeeded

C5_WitnessDefault ==
    /\ tool = "create_bucket"
    /\ args.region = "us-west-1"
    /\ RequestedLocation = PyStr("us-west-1")

SixFields == {RuleFields[i] : i \in 1..Len(RuleFields)}

\* every input rule is submitted, in order, with exactly the six fields; a
\* field of the input keeps its value, a missing field is an empty list if
\* it is in emptyWhenMissing and None otherwise
SubmittedRulesAre(emptyWhenMissing) ==
    /\ Len(calls) = 1
    /\ calls[1].op = "put_bucket_lifecycle_configuration"
    /\ LET sub == calls[1].kwargs.LifecycleConfiguration.Rules
           inp == args.lifecycle_config
       IN /\ Len(sub) = Len(inp)
          /\ \A i \in 1..Len(inp) :
                /\ DOMAIN sub[i] = SixFields
                /\ \A f \in SixFields :
                      IF f \in DOMAIN inp[i] THEN sub[i][f] = inp[i][f]
                      ELSE IF f \in emptyWhenMissing
                           THEN sub[i][f].t = "list" /\ Len(sub[i][f].v) = 0
                           ELSE sub[i][f].t = "none"

\* C6 as stated: every one of the six fields missing from an input rule is
\* submitted with the value None.
C6_MissingFieldsAreNull ==
    tool = "put_bucket_lifecycle" => SubmittedRulesAre({})

\* C6, amended: put_bucket_lifecycle submits, in input order, one rule per
\* input rule with exactly the six fields; a field of the input keeps its
\* value; a missing ID, Status, Expiration or NoncurrentVersionExpiration is
\* submitted as None, a missing Transitions or NoncurrentVersionTransitions
\* as an empty list.
C6_NormalizedRules ==
    tool = "put_bucket_lifecycle" =>
        SubmittedRulesAre({"Transitions", "NoncurrentVersionTransitions"})

C6_Witness ==
    /\ tool = "put_bucket_lifecycle"
    /\ Len(args.lifecycle_config) = 2
    /\ DOMAIN args.lifecycle_config[1] = RuleKeys \ {"Transitions"}
    /\ DOMAIN args.lifecycle_config[2] = {}
    /\ calls[1].kwargs.LifecycleConfiguration.Rules[1].Transitions = PyList(<<>>)
    /\ calls[1].kwargs.LifecycleConfiguration.Rules[2].ID = PyNone

\* C7: put_object_tagging, given tags that all have Key and Value, submits
\* one tag set of the same length and order whose entries have exactly Key
\* and Value, with the input's values; given a tag lacking Key or Value it
\* issues no backend call and returns the error envelope.
C7_TagSet ==
    tool = "put_object_tagging" =>
        IF TagsComplete
        THEN /\ Len(calls) = 1
             /\ calls[1].op = "put_object_tagging"
             /\ LET sub == calls[1].kwargs.Tagging.TagSet IN
                /\ Len(sub) = Len(args.tags)
                /\ \A i \in 1..Len(sub) :
                      /\ DOMAIN sub[i] = {"Key", "Value"}
                      /\ sub[i].Key = args.tags[i]["Key"]
                      /\ sub[i].Value = args.tags[i]["Value"]
        ELSE calls = <<>> /\ IsErrorEnvelope(result)

C7_Witness ==
    /\ tool = "put_object_tagging"
    /\ Len(args.tags) = 2
    /\ DOMAIN args.tags[1] = {"Key", "Value", "Note"}
    /\ DOMAIN args.tags[2] = {"Key", "Value"}
    /\ args.tags[1]["Key"] # args.tags[2]["Key"]
    /\ Len(calls) = 1

C7_WitnessMissing ==
    /\ tool = "put_object_tagging"
    /\ Len(args.tags) = 2
    /\ DOMAIN args.tags[2] = {"Key", "Note"}
    /\ calls = <<>>
    /\ result.v.error.v = <<"'", "Value", "'">>

\* s is "GET" up to the case of its letters
IsGetIgnoringCase(s) ==
    /\ Len(s) = 3
    /\ s[1] \in {"G", "g"}
    /\ s[2] \in {"E", "e"}
    /\ s[3] \in {"T", "t"}

\* C8: generate_presigned_url asks for a get_object URL exactly when
\* http_method is "GET" in any letter case (also when defaulted) and for a
\* put_object URL otherwise, passes expires_in unchanged (3600 when
\* defaulted), and on success returns exactly success and the backend's url.
C8_PresignedUrl ==
    tool = "generate_presigned_url" =>
        /\ Len(calls) = 1
        /\ calls[1].op = "generate_presigned_url"
        /\ calls[1].kwargs.ClientMethod =
              (IF IsGetIgnoringCase(args.http_method) THEN "get_object" ELSE "put_object")
        /\ args.defaulted.http_method => calls[1].kwargs.ClientMethod = "get_object"
        /\ calls[1].kwargs.ExpiresIn = args.expires_in
        /\ args.defaulted.expires_in => calls[1].kwargs.ExpiresIn = 3600
        /\ ~Raised(calls) =>
              /\ result.t = "dict"
              /\ DOMAIN result.v = {"success", "url"}
              /\ result.v.success = PyBool(TRUE)
              /\ result.v.url = PyStr(calls[1].response)

C8_Witness ==
    /\ tool = "generate_presigned_url"
    /\ args.http_method = <<"g", "e", "t">>
    /\ args.expires_in = -1
    /\ calls[1].kwargs.ClientMethod = "get_object"
    /\ Succeeded

C8_WitnessPut ==
    /\ tool = "generate_presigned_url"
    /\ args.http_method = <<"D", "E", "L", "E", "T", "E">>
    /\ calls[1].kwargs.ClientMethod = "put_object"
    /\ args.expires_in = 604801
    /\ Succeeded

\* C9: list_bucket, when the listing succeeds, returns bucket and files;
\* files is empty when the response has no Contents, and otherwise has one
\* entry per object, in order, each with exactly key, size, last_modified.
C9_ListBucket ==
    (tool = "list_bucket" /\ ~Raised(calls)) =>
        LET response == calls[1].response IN
        /\ result.t = "dict"
        /\ DOMAIN result.v = {"bucket", "files"}
        /\ result.v.bucket = PyStr(args.bucket_name)
        /\ result.v.files.t = "list"
        /\ IF "Contents" \in DOMAIN response
           THEN /\ Len(result.v.files.v) = Len(response.Contents)
                /\ \A i \in 1..Len(response.Contents) :
                      LET f == result.v.files.v[i] IN
                      /\ f.t = "dict"
                      /\ DOMAIN f.v = {"key", "size", "last_modified"}
                      /\ f.v.key = PyStr(response.Contents[i].Key)
                      /\ f.v.size = PyInt(response.Contents[i].Size)
           ELSE result.v.files.v = <<>>

C9_Witness ==
    /\ tool = "list_bucket"
    /\ ~Raised(calls)
    /\ "Contents" \notin DOMAIN calls[1].response
    /\ result.v.files = PyList(<<>>)

C9_WitnessContents ==
    /\ tool = "list_bucket"
    /\ ~Raised(calls)
    /\ "Contents" \in DOMAIN calls[1].response
    /\ Len(result.v.files.v) = 2
    /\ result.v.files.v[1].v.key # result.v.files.v[2].v.key

\* C10: whenever create_bucket's config has a versioning entry and no call
\* fails, a versioning call is issued, with status Enabled for true and
\* Suspended for false.
C10_VersioningFollowsEntry ==
    ( /\ tool = "create_bucket"
      /\ ~Raised(calls)
      /\ args.config.t = "dict"
      /\ "versioning" \in DOMAIN args.config.v )
    => \E i \in 1..Len(calls) :
          /\ calls[i].op = "put_bucket_versioning"
          /\ calls[i].kwargs.VersioningConfiguration.Status.v =
                (IF args.config.v["versioning"].v THEN "Enabled" ELSE "Suspended")

====
